---- MODULE Spec2Model ----
(***************************************************************************)
(* Model of app.py: a Streamlit retail dashboard over two MongoDB           *)
(* collections (products, users).  Every browser session runs the script   *)
(* in its own thread, so the sessions interleave at the granularity of the *)
(* individual database calls (find, find_one, insert_one, update_one,      *)
(* delete_one, delete_many, insert_many).  A handler that makes one        *)
(* database call is one action; a handler that makes two (register_user,   *)
(* push_local_to_mongo, the first page load) is one action per call, with  *)
(* pc[s] holding the session's position between them.                      *)
(*                                                                         *)
(* Units: Price and Revenue are integers in cents, Rating in tenths,       *)
(* Recommendation_Score in hundredths.                                     *)
(***************************************************************************)
EXTENDS Integers, Sequences, FiniteSets, TLC

VARIABLES
    client,     \* init_connection()'s cached result is a client (TRUE) or None (FALSE)
    users,      \* the users collection, in insertion order
    products,   \* the products collection, in insertion order
    logged_in,  \* st.session_state.logged_in, per session
    user,       \* st.session_state.user, per session
    has_df,     \* 'df' in st.session_state, per session
    df,         \* st.session_state.df, per session
    pc,         \* position of the session's script run between database calls
    msg,        \* the last st.success / st.error / st.warning shown to the session
    reg,        \* register_user's arguments while its insert_one is pending
    ops         \* number of user interactions so far (bounds the exploration)

vars == <<client, users, products, logged_in, user, has_df, df, pc, msg, reg, ops>>

\* Number of user interactions explored.
MaxOps == 5

Sessions == {"s1", "s2"}

(***************************************************************************)
(* Pure helpers                                                            *)
(***************************************************************************)

\* Python's round() / np.round: n/d rounded to the nearest integer, ties to even.
RoundHalfEven(n, d) ==
    LET nn == IF d < 0 THEN -n ELSE n
        dd == IF d < 0 THEN -d ELSE d
        q  == nn \div dd
        r  == nn % dd
    IN  IF 2 * r < dd THEN q
        ELSE IF 2 * r > dd THEN q + 1
        ELSE IF q % 2 = 0 THEN q ELSE q + 1

\* hashlib.sha256(password).hexdigest(): a digest, distinct per password used here.
hash_password(password) == <<"sha256", password>>

\* f"Product_{n}"
ProductId(n) == <<"Product", n>>

\* int(pid.split("_")[1])
ProductNumber(pid) == pid[2]

Max(S) == CHOOSE x \in S : \A y \in S : y <= x

Range(seq) == {seq[i] : i \in 1..Len(seq)}

\* Number of documents of a collection with the given Product_ID.
CountId(coll, pid) == Cardinality({i \in 1..Len(coll) : coll[i].Product_ID = pid})

(***************************************************************************)
(* Derived metrics                                                         *)
(***************************************************************************)

\* round(price * sales * (1 - discount/100), 2), in cents.
Revenue(price, sales, discount) ==
    RoundHalfEven(price * sales * (100 - discount), 100)

\* A float that may be nan or +-inf: kind is "num", "nan", "inf" or "-inf".
Num(v) == [kind |-> "num", val |-> v]
NotNum(k) == [kind |-> k, val |-> 0]

\* round(rating*0.4 + sales / d['Sales_Volume'].max() * 5*0.3 + discount/25 * 5*0.3, 2),
\* in hundredths; d is the DataFrame the maximum is taken over.  The maximum of an
\* empty column is nan, and numpy division by a zero maximum gives nan or +-inf.
RecommendationScore(rating, sales, discount, d) ==
    IF d = <<>> THEN NotNum("nan")
    ELSE LET m == Max({d[i].Sales_Volume : i \in 1..Len(d)})
         IN  IF m = 0
             THEN IF sales = 0 THEN NotNum("nan")
                  ELSE IF sales > 0 THEN NotNum("inf") ELSE NotNum("-inf")
             ELSE Num(RoundHalfEven((4 * rating + 6 * discount) * m + 150 * sales, m))

\* The choices of the Discount select boxes and of the seed generator.
DiscountChoices == {0, 5, 10, 15, 20}

(***************************************************************************)
(* create_local_df: the seeded catalog.  The source draws 30 rows from a   *)
(* fixed random seed; the model keeps two rows inside the same ranges      *)
(* (Price 10..500, Rating 3.0..5.0, Sales_Volume 10..999, Stock 0..199).   *)
(***************************************************************************)
SeedData ==
    << [Product_ID |-> ProductId(1), Product_Name |-> "Food Item 1", Category |-> "Food",
        Price |-> 1050, Rating |-> 40, Sales_Volume |-> 10, Stock |-> 5, Discount |-> 5],
       [Product_ID |-> ProductId(2), Product_Name |-> "Books Item 2", Category |-> "Books",
        Price |-> 2000, Rating |-> 35, Sales_Volume |-> 20, Stock |-> 0, Discount |-> 0] >>

\* A product row: the raw fields r plus the two derived columns.
WithMetrics(r, revenue, score) ==
    [Product_ID |-> r.Product_ID, Product_Name |-> r.Product_Name,
     Category |-> r.Category, Price |-> r.Price, Rating |-> r.Rating,
     Sales_Volume |-> r.Sales_Volume, Stock |-> r.Stock, Discount |-> r.Discount,
     Revenue |-> revenue, Recommendation_Score |-> score]

create_local_df ==
    [i \in 1..Len(SeedData) |->
        WithMetrics(SeedData[i],
                    Revenue(SeedData[i].Price, SeedData[i].Sales_Volume, SeedData[i].Discount),
                    RecommendationScore(SeedData[i].Rating, SeedData[i].Sales_Volume,
                                        SeedData[i].Discount, SeedData))]

(***************************************************************************)
(* Database calls                                                          *)
(***************************************************************************)

\* Index of the first document of coll (natural order) with the Product_ID, 0 if none.
FirstWithId(coll, pid) ==
    IF \E i \in 1..Len(coll) : coll[i].Product_ID = pid
    THEN CHOOSE i \in 1..Len(coll) :
            /\ coll[i].Product_ID = pid
            /\ \A j \in 1..(i - 1) : coll[j].Product_ID # pid
    ELSE 0

\* coll.update_one({"Product_ID": pid}, {"$set": doc}, upsert=True)
update_one(coll, doc) ==
    LET i == FirstWithId(coll, doc.Product_ID)
    IN  IF i = 0 THEN Append(coll, doc)
        ELSE [coll EXCEPT ![i] =
                [k \in DOMAIN coll[i] |-> IF k \in DOMAIN doc THEN doc[k] ELSE coll[i][k]]]

\* coll.delete_one({"Product_ID": pid})
delete_one(coll, pid) ==
    LET i == FirstWithId(coll, pid)
    IN  IF i = 0 THEN coll
        ELSE [j \in 1..(Len(coll) - 1) |-> IF j < i THEN coll[j] ELSE coll[j + 1]]

\* res.deleted_count > 0
deleted_count_positive(coll, pid) == FirstWithId(coll, pid) # 0

\* Index of the first account matching username (and the password hash), 0 if none.
FirstAccount(coll, username) ==
    IF \E i \in 1..Len(coll) : coll[i].username = username
    THEN CHOOSE i \in 1..Len(coll) :
            /\ coll[i].username = username
            /\ \A j \in 1..(i - 1) : coll[j].username # username
    ELSE 0

FirstAccountWithPassword(coll, username, hashed) ==
    IF \E i \in 1..Len(coll) : coll[i].username = username /\ coll[i].password = hashed
    THEN CHOOSE i \in 1..Len(coll) :
            /\ coll[i].username = username /\ coll[i].password = hashed
            /\ \A j \in 1..(i - 1) :
                  ~(coll[j].username = username /\ coll[j].password = hashed)
    ELSE 0

(***************************************************************************)
(* Inputs                                                                  *)
(***************************************************************************)

Usernames == {"admin", "bob"}

\* Passwords that pass the register form's checks (non-empty, 6+ characters).
Passwords == {"hunter22", "letmein1"}

\* The account the deployment starts with: register_user is only ever called with
\* the default role "user", so an admin account is put into the collection by hand.
AdminAccount ==
    [username |-> "admin", password |-> hash_password("hunter22"),
     role |-> "admin", full_name |-> "Site Admin"]

\* st.session_state.user = None
NoUser == [username |-> "", role |-> "", full_name |-> ""]

NoReg == [username |-> "", password |-> "", full_name |-> ""]

\* Values typed into the "Add product" form: min_value=0 on Price, Sales Volume and
\* Stock, a 0.0..5.0 Rating slider, a Discount select box.  The second one leaves
\* the name empty.
AddForms ==
    { [Product_Name |-> "Lamp", Category |-> "Home", Price |-> 99, Rating |-> 45,
       Sales_Volume |-> 4, Stock |-> 10, Discount |-> 5],
      [Product_Name |-> "", Category |-> "Home", Price |-> 0, Rating |-> 40,
       Sales_Volume |-> 10, Stock |-> 10, Discount |-> 0] }

\* Values typed into the "Edit product" form: the number inputs have no min_value
\* there; the Rating slider and the Discount select box are the same as in the add form.
EditForms ==
    { [Product_Name |-> "Desk", Category |-> "Home", Price |-> 199, Rating |-> 30,
       Sales_Volume |-> 40, Stock |-> 0, Discount |-> 15],
      [Product_Name |-> "Lamp", Category |-> "Home", Price |-> -105, Rating |-> 0,
       Sales_Volume |-> -4, Stock |-> -1, Discount |-> 10] }

(***************************************************************************)
(* Initial state: the server process has started, init_connection has or   *)
(* has not produced a client, both collections are as the deployment left  *)
(* them (no products yet, the admin account), no session has logged in.    *)
(***************************************************************************)
Init ==
    /\ client \in BOOLEAN
    /\ users = <<AdminAccount>>
    /\ products = <<>>
    /\ logged_in = [s \in Sessions |-> FALSE]
    /\ user = [s \in Sessions |-> NoUser]
    /\ has_df = [s \in Sessions |-> FALSE]
    /\ df = [s \in Sessions |-> <<>>]
    /\ pc = [s \in Sessions |-> "idle"]
    /\ msg = [s \in Sessions |-> ""]
    /\ reg = [s \in Sessions |-> NoReg]
    /\ ops = 0

\* get_db_collections() returned collections rather than (None, None).
get_db_collections == client

\* A user interaction (a form submit or a button click) of an idle session.
Interaction(s) ==
    /\ pc[s] = "idle"
    /\ ops < MaxOps
    /\ ops' = ops + 1

(***************************************************************************)
(* init_connection is cached with st.cache_resource: its result is shared  *)
(* by all sessions for as long as the cache entry lives.  It is None when  *)
(* the secrets are missing or MongoClient raises, a client otherwise; when *)
(* the cache is cleared the function runs again and may give the other     *)
(* result, also while sessions are logged in (the delete handler's "Mongo  *)
(* delete may have failed" branch is written for that situation).          *)
(***************************************************************************)
init_connection ==
    /\ ops < MaxOps
    /\ ops' = ops + 1
    /\ client' = ~client
    /\ UNCHANGED <<users, products, logged_in, user, has_df, df, pc, msg, reg>>

(***************************************************************************)
(* Users                                                                   *)
(***************************************************************************)

\* register_user up to and including find_one; the register form has passed its checks.
RegisterFind(s, username, password, full_name) ==
    /\ ~logged_in[s]
    /\ Interaction(s)
    /\ IF ~get_db_collections
       THEN /\ msg' = [msg EXCEPT ![s] = "DB connection problem"]
            /\ UNCHANGED <<pc, reg>>
       ELSE IF FirstAccount(users, username) # 0
       THEN /\ msg' = [msg EXCEPT ![s] = "Username already exists"]
            /\ UNCHANGED <<pc, reg>>
       ELSE /\ pc' = [pc EXCEPT ![s] = "reg_insert"]
            /\ reg' = [reg EXCEPT ![s] =
                        [username |-> username, password |-> password,
                         full_name |-> full_name]]
            /\ UNCHANGED msg
    /\ UNCHANGED <<client, users, products, logged_in, user, has_df, df>>

\* register_user's insert_one and return (True, "Registered").
RegisterInsert(s) ==
    /\ pc[s] = "reg_insert"
    /\ users' = Append(users,
                  [username |-> reg[s].username,
                   password |-> hash_password(reg[s].password),
                   role |-> "user", full_name |-> reg[s].full_name])
    /\ msg' = [msg EXCEPT ![s] = "Registered. Login now."]
    /\ pc' = [pc EXCEPT ![s] = "idle"]
    /\ reg' = [reg EXCEPT ![s] = NoReg]
    /\ UNCHANGED <<client, products, logged_in, user, has_df, df, ops>>

\* authenticate_user with the password left out of the find_one filter.
authenticate_user_by_name(username, password) ==
    IF ~get_db_collections THEN NoUser
    ELSE LET i == FirstAccount(users, username)
         IN  IF i = 0 THEN NoUser
             ELSE [username |-> users[i].username, role |-> users[i].role,
                   full_name |-> users[i].full_name]

\* authenticate_user: the record of the first account matching username and hash,
\* NoUser for None.
authenticate_user(username, password) ==
    IF ~get_db_collections THEN NoUser
    ELSE LET i == FirstAccountWithPassword(users, username, hash_password(password))
         IN  IF i = 0 THEN NoUser
             ELSE [username |-> users[i].username, role |-> users[i].role,
                   full_name |-> users[i].full_name]

\* The login form's submit; on success st.rerun() enters show_main_app, which loads
\* the catalog when the session has none.
Login(s, username, password) ==
    /\ ~logged_in[s]
    /\ Interaction(s)
    /\ LET found == authenticate_user(username, password)
       IN  IF found # NoUser
           THEN /\ logged_in' = [logged_in EXCEPT ![s] = TRUE]
                /\ user' = [user EXCEPT ![s] = found]
                /\ msg' = [msg EXCEPT ![s] = ""]
                /\ pc' = [pc EXCEPT ![s] = IF has_df[s] THEN "idle" ELSE "load"]
           ELSE /\ msg' = [msg EXCEPT ![s] = "Invalid credentials"]
                /\ UNCHANGED <<logged_in, user, pc>>
    /\ UNCHANGED <<client, users, products, has_df, df, reg>>

\* The sidebar's Logout button.
Logout(s) ==
    /\ logged_in[s]
    /\ Interaction(s)
    /\ logged_in' = [logged_in EXCEPT ![s] = FALSE]
    /\ user' = [user EXCEPT ![s] = NoUser]
    /\ msg' = [msg EXCEPT ![s] = ""]
    /\ UNCHANGED <<client, users, products, has_df, df, pc, reg>>

(***************************************************************************)
(* Catalog: first page load and the Sync page                              *)
(***************************************************************************)

\* load_products_from_mongo: the documents, or an empty DataFrame when there is no
\* connection or the collection is empty.
load_products_from_mongo ==
    IF get_db_collections /\ Len(products) > 0 THEN products ELSE <<>>

\* show_main_app when 'df' is not in the session: take the store's rows, or the seed,
\* which is then pushed.
Load(s) ==
    /\ pc[s] = "load"
    /\ LET mongo_df == load_products_from_mongo
       IN  IF mongo_df # <<>>
           THEN /\ df' = [df EXCEPT ![s] = mongo_df]
                /\ pc' = [pc EXCEPT ![s] = "idle"]
           ELSE /\ df' = [df EXCEPT ![s] = create_local_df]
                /\ pc' = [pc EXCEPT ![s] = "seed_delete"]
    /\ has_df' = [has_df EXCEPT ![s] = TRUE]
    /\ UNCHANGED <<client, users, products, logged_in, user, msg, reg, ops>>

\* push_local_to_mongo up to and including delete_many: without a connection it
\* returns False; insert_many follows (position after) unless the DataFrame is empty.
PushDeleteMany(s, after, failed, pushed) ==
    IF ~get_db_collections
    THEN /\ pc' = [pc EXCEPT ![s] = "idle"]
         /\ msg' = [msg EXCEPT ![s] = failed]
         /\ UNCHANGED products
    ELSE /\ products' = <<>>
         /\ IF df[s] = <<>>
            THEN /\ pc' = [pc EXCEPT ![s] = "idle"]
                 /\ msg' = [msg EXCEPT ![s] = pushed]
            ELSE /\ pc' = [pc EXCEPT ![s] = after]
                 /\ UNCHANGED msg

\* The first page load's push of the seed: nothing is shown whatever it returns.
SeedDeleteMany(s) ==
    /\ pc[s] = "seed_delete"
    /\ PushDeleteMany(s, "seed_insert", msg[s], msg[s])
    /\ UNCHANGED <<client, users, logged_in, user, has_df, df, reg, ops>>

\* push_local_to_mongo's insert_many and return True.
InsertMany(s) ==
    /\ pc[s] \in {"seed_insert", "sync_insert"}
    /\ products' = products \o df[s]
    /\ msg' = [msg EXCEPT ![s] =
                 IF pc[s] = "sync_insert" THEN "Local pushed to Mongo" ELSE msg[s]]
    /\ pc' = [pc EXCEPT ![s] = "idle"]
    /\ UNCHANGED <<client, users, logged_in, user, has_df, df, reg, ops>>

\* Pages without the role test: every destination offered to every role.
PagesForAnyRole(role) == {"Dashboard", "Products", "Manage Products", "Sync"}

\* The navigation destinations show_main_app offers to a role.
Pages(role) ==
    IF role = "admin" THEN {"Dashboard", "Products", "Manage Products", "Sync"}
    ELSE {"Dashboard", "Products"}

\* The session is logged in, has its catalog and is on the given page.
OnPage(s, page) ==
    /\ logged_in[s]
    /\ has_df[s]
    /\ page \in Pages(user[s].role)

\* Sync page, "Push local to Mongo (overwrite collection)".
SyncPush(s) ==
    /\ OnPage(s, "Sync")
    /\ Interaction(s)
    /\ PushDeleteMany(s, "sync_insert", "Push failed", "Local pushed to Mongo")
    /\ UNCHANGED <<client, users, logged_in, user, has_df, df, reg>>

\* Sync page, "Pull from Mongo (overwrite local)".
SyncPull(s) ==
    /\ OnPage(s, "Sync")
    /\ Interaction(s)
    /\ LET mongo_df == load_products_from_mongo
       IN  IF mongo_df # <<>>
           THEN /\ df' = [df EXCEPT ![s] = mongo_df]
                /\ msg' = [msg EXCEPT ![s] = "Pulled from Mongo into local session"]
           ELSE /\ msg' = [msg EXCEPT ![s] = "Mongo collection empty"]
                /\ UNCHANGED df
    /\ UNCHANGED <<client, users, products, logged_in, user, has_df, pc, reg>>

(***************************************************************************)
(* Catalog: Manage Products                                                *)
(***************************************************************************)

\* The row the add form builds from its inputs and the session's DataFrame d.
NewRow(d, form) ==
    LET current_ids == {ProductNumber(d[i].Product_ID) : i \in 1..Len(d)}
        next_id == IF current_ids # {} THEN Max(current_ids) + 1 ELSE 1
    IN  WithMetrics([Product_ID |-> ProductId(next_id),
                     Product_Name |-> form.Product_Name, Category |-> form.Category,
                     Price |-> form.Price, Rating |-> form.Rating,
                     Sales_Volume |-> form.Sales_Volume, Stock |-> form.Stock,
                     Discount |-> form.Discount],
                    Revenue(form.Price, form.Sales_Volume, form.Discount),
                    RecommendationScore(form.Rating, form.Sales_Volume,
                                        form.Discount, d))

\* upsert_product_to_mongo: the collection afterwards (unchanged without a connection).
upsert_product_to_mongo(product_dict) ==
    IF get_db_collections THEN update_one(products, product_dict) ELSE products

\* "Add product".
Add(s, form) ==
    /\ OnPage(s, "Manage Products")
    /\ Interaction(s)
    /\ IF form.Product_Name = "" \/ form.Category = ""
       THEN /\ msg' = [msg EXCEPT ![s] = "Name and category are required"]
            /\ UNCHANGED <<df, products>>
       ELSE LET new_row == NewRow(df[s], form)
            IN  /\ df' = [df EXCEPT ![s] = Append(df[s], new_row)]
                /\ products' = upsert_product_to_mongo(new_row)
                /\ msg' = [msg EXCEPT ![s] = "Product added"]
    /\ UNCHANGED <<client, users, logged_in, user, has_df, pc, reg>>

\* df[df['Product_Name'] == selected].iloc[0]
FirstWithName(d, name) ==
    d[CHOOSE i \in 1..Len(d) :
        /\ d[i].Product_Name = name
        /\ \A j \in 1..(i - 1) : d[j].Product_Name # name]

\* The names a select box of the Manage Products page lets the admin pick.
Selectable(d) == {d[i].Product_Name : i \in 1..Len(d)} \ {""}

\* EditedRow with the selected row's old Revenue carried over instead of recomputed.
EditedRowKeepsRevenue(d, selected, form) ==
    WithMetrics([Product_ID |-> FirstWithName(d, selected).Product_ID,
                 Product_Name |-> form.Product_Name, Category |-> form.Category,
                 Price |-> form.Price, Rating |-> form.Rating,
                 Sales_Volume |-> form.Sales_Volume, Stock |-> form.Stock,
                 Discount |-> form.Discount],
                FirstWithName(d, selected).Revenue,
                RecommendationScore(form.Rating, form.Sales_Volume, form.Discount, d))

\* The document the edit form writes for the selected row.
EditedRow(d, selected, form) ==
    WithMetrics([Product_ID |-> FirstWithName(d, selected).Product_ID,
                 Product_Name |-> form.Product_Name, Category |-> form.Category,
                 Price |-> form.Price, Rating |-> form.Rating,
                 Sales_Volume |-> form.Sales_Volume, Stock |-> form.Stock,
                 Discount |-> form.Discount],
                Revenue(form.Price, form.Sales_Volume, form.Discount),
                RecommendationScore(form.Rating, form.Sales_Volume, form.Discount, d))

\* "Update product": every local row with the Product_ID takes the new values.
Edit(s, selected, form) ==
    /\ OnPage(s, "Manage Products")
    /\ selected \in Selectable(df[s])
    /\ Interaction(s)
    /\ LET edited == EditedRow(df[s], selected, form)
       IN  /\ df' = [df EXCEPT ![s] =
                       [i \in 1..Len(df[s]) |->
                           IF df[s][i].Product_ID = edited.Product_ID
                           THEN edited ELSE df[s][i]]]
           /\ products' = upsert_product_to_mongo(edited)
    /\ msg' = [msg EXCEPT ![s] = "Product updated"]
    /\ UNCHANGED <<client, users, logged_in, user, has_df, pc, reg>>

\* delete_product_from_mongo: the collection afterwards.
delete_product_from_mongo(product_id) ==
    IF get_db_collections THEN delete_one(products, product_id) ELSE products

\* delete_product_from_mongo's return value.
delete_returns(product_id) ==
    get_db_collections /\ deleted_count_positive(products, product_id)

\* "Confirm delete": the local rows with the Product_ID go whatever the store says
\* (the warning's dash is written in ASCII here).
Delete(s, selected) ==
    /\ OnPage(s, "Manage Products")
    /\ selected \in Selectable(df[s])
    /\ Interaction(s)
    /\ LET pid == FirstWithName(df[s], selected).Product_ID
       IN  /\ df' = [df EXCEPT ![s] = SelectSeq(df[s], LAMBDA r : r.Product_ID # pid)]
           /\ products' = delete_product_from_mongo(pid)
           /\ msg' = [msg EXCEPT ![s] =
                        IF delete_returns(pid) THEN "Deleted from Mongo and local"
                        ELSE "Deleted locally - Mongo delete may have failed"]
    /\ UNCHANGED <<client, users, logged_in, user, has_df, pc, reg>>

(***************************************************************************)
(* Specification                                                           *)
(***************************************************************************)
Next ==
    \/ init_connection
    \/ \E s \in Sessions, u \in Usernames, p \in Passwords :
          RegisterFind(s, u, p, "Full Name")
    \/ \E s \in Sessions : RegisterInsert(s)
    \/ \E s \in Sessions, u \in Usernames, p \in Passwords : Login(s, u, p)
    \/ \E s \in Sessions : Logout(s)
    \/ \E s \in Sessions : Load(s)
    \/ \E s \in Sessions : SeedDeleteMany(s)
    \/ \E s \in Sessions : InsertMany(s)
    \/ \E s \in Sessions : SyncPush(s)
    \/ \E s \in Sessions : SyncPull(s)
    \/ \E s \in Sessions, f \in AddForms : Add(s, f)
    \/ \E s \in Sessions, f \in EditForms :
          \E n \in Selectable(df[s]) : Edit(s, n, f)
    \/ \E s \in Sessions : \E n \in Selectable(df[s]) : Delete(s, n)

Spec == Init /\ [][Next]_vars

(***************************************************************************)
(* Steps named by the properties below                                     *)
(***************************************************************************)

\* Session s submits the add form with a name and a category.
AddStep(s) ==
    \E f \in AddForms : f.Product_Name # "" /\ f.Category # "" /\ Add(s, f)

EditStep(s) == \E f \in EditForms : \E n \in Selectable(df[s]) : Edit(s, n, f)

DeleteStep(s) == \E n \in Selectable(df[s]) : Delete(s, n)

\* The step makes session s call update_one, delete_one, delete_many or insert_many
\* on the products collection.
WriteCall(s) ==
    \/ InsertMany(s)
    \/ /\ get_db_collections
       /\ SeedDeleteMany(s) \/ SyncPush(s) \/ AddStep(s) \/ EditStep(s) \/ DeleteStep(s)

\* The step makes session s call find on the products collection.
ReadCall(s) == get_db_collections /\ (Load(s) \/ SyncPull(s))

\* Some session is between push_local_to_mongo's delete_many and its insert_many.
MidPush(t) == pc[t] \in {"seed_insert", "sync_insert"}

HasRow(coll, r) == \E i \in 1..Len(coll) : coll[i] = r

(***************************************************************************)
(* C1                                                                      *)
(***************************************************************************)

\* C1: whenever upsert_product_to_mongo(row) completes against the store (an add or
\* an edit with a connection), the products collection holds exactly one row with
\* row's Product_ID, and the row written is in the collection.
C1_UpsertLeavesExactlyOneRow ==
    [][\A s \in Sessions :
        /\ \A f \in AddForms :
              (get_db_collections /\ f.Product_Name # "" /\ f.Category # "" /\ Add(s, f))
              => /\ CountId(products', NewRow(df[s], f).Product_ID) = 1
                 /\ HasRow(products', NewRow(df[s], f))
        /\ \A f \in EditForms : \A n \in Selectable(df[s]) :
              (get_db_collections /\ Edit(s, n, f))
              => /\ CountId(products', EditedRow(df[s], n, f).Product_ID) = 1
                 /\ HasRow(products', EditedRow(df[s], n, f))]_vars

(***************************************************************************)
(* C2                                                                      *)
(***************************************************************************)

UniqueUsernames(coll) ==
    \A i, j \in 1..Len(coll) : coll[i].username = coll[j].username => i = j

\* C2: the users collection never holds two accounts with one username, and a
\* register_user call for a username that has an account reports "Username already
\* exists" and leaves the collection as it was.
C2_UsernamesStayUnique ==
    [][/\ UniqueUsernames(users')
       /\ \A s \in Sessions, u \in Usernames, p \in Passwords :
             (/\ get_db_collections
              /\ \E i \in 1..Len(users) : users[i].username = u
              /\ RegisterFind(s, u, p, "Full Name"))
             => /\ users' = users
                /\ msg'[s] = "Username already exists"
                /\ pc'[s] = "idle"]_vars

(***************************************************************************)
(* C3                                                                      *)
(***************************************************************************)

\* C3: push_local_to_mongo is atomic: no session reads or writes the products
\* collection while another session is between the push's delete_many and its
\* insert_many, and when the push's insert_many returns the collection is exactly
\* the pushed rows.
C3_PushIsAtomic ==
    [][\A s \in Sessions :
        /\ (ReadCall(s) \/ WriteCall(s)) => \A t \in Sessions \ {s} : ~MidPush(t)
        /\ InsertMany(s) => products' = df[s]]_vars

(***************************************************************************)
(* C4                                                                      *)
(***************************************************************************)

\* The step completes an add, edit, delete, push or pull of session s.
MutationCompletes(s) ==
    \/ AddStep(s) \/ EditStep(s) \/ DeleteStep(s)
    \/ SyncPull(s)
    \/ SyncPush(s) /\ pc'[s] = "idle"
    \/ InsertMany(s) /\ pc[s] = "sync_insert"

\* C4: after every add, edit, delete, push and pull a session performs, the set of
\* rows of its local copy equals the set of rows of the products collection.
C4_LocalMirrorsStore ==
    [][\A s \in Sessions :
        MutationCompletes(s) => Range(df'[s]) = Range(products')]_vars

(***************************************************************************)
(* C5                                                                      *)
(***************************************************************************)

\* Revenue is Price * Sales_Volume * (1 - Discount/100) rounded to the cent: within
\* half a cent of the exact product and, at exactly half a cent, the even neighbour.
RevenueIsRounded(r) ==
    LET exact == r.Price * r.Sales_Volume * (100 - r.Discount)
        diff  == 100 * r.Revenue - exact
    IN  /\ -50 <= diff /\ diff <= 50
        /\ (diff = 50 \/ diff = -50) => r.Revenue % 2 = 0

AllRows == Range(products) \cup UNION {Range(df[s]) : s \in Sessions}

\* C5: every row of a local catalog and of the products collection carries
\* Revenue = round(Price * Sales_Volume * (1 - Discount/100), 2) over its own current
\* Price, Sales_Volume and Discount.
C5_RevenueIsDerived == \A r \in AllRows : RevenueIsRounded(r)

\* An added row (rounded down from 376.2 cents) and an edited row (negative price and
\* sales) are in the store and in a local catalog.
C5_Witness ==
    /\ \E r \in Range(products) :
          r.Product_Name = "Lamp" /\ r.Price = 99 /\ r.Revenue = 376
    /\ \E s \in Sessions : \E r \in Range(df[s]) :
          r.Price = -105 /\ r.Sales_Volume = -4 /\ r.Revenue = 378
    /\ \E r \in Range(products) : r.Price = -105 /\ r.Revenue = 378

(***************************************************************************)
(* C6                                                                      *)
(***************************************************************************)

\* The accounts registered under the username with the password.
Matching(username, password) ==
    {i \in 1..Len(users) :
        /\ users[i].username = username
        /\ users[i].password = hash_password(password)}

\* C6: authenticate_user returns None for a password no account of the username was
\* registered with; for a registered username and password (and a connection) it
\* returns a record with that username and the role of such an account; a session
\* becomes logged in only by a login for which authenticate_user returned a record,
\* and stops being logged in only by Logout.
C6_AuthenticationIsSound ==
    [][\A s \in Sessions :
        /\ \A u \in Usernames, p \in Passwords :
              Login(s, u, p)
              => /\ Matching(u, p) = {}
                    => authenticate_user(u, p) = NoUser /\ ~logged_in'[s]
                 /\ (Matching(u, p) # {} /\ get_db_collections)
                    => /\ authenticate_user(u, p).username = u
                       /\ \E i \in Matching(u, p) :
                             authenticate_user(u, p).role = users[i].role
                       /\ logged_in'[s]
                       /\ user'[s] = authenticate_user(u, p)
        /\ (~logged_in[s] /\ logged_in'[s])
           => \E u \in Usernames, p \in Passwords :
                 /\ Login(s, u, p)
                 /\ Matching(u, p) # {}
                 /\ user'[s].username = u
        /\ (logged_in[s] /\ ~logged_in'[s]) => Logout(s)]_vars

\* bob has registered and is logged in with role "user" in one session, and a login
\* with a password bob never registered has been refused in another.
C6_Witness ==
    \E s, t \in Sessions :
        /\ logged_in[s] /\ user[s].username = "bob" /\ user[s].role = "user"
        /\ ~logged_in[t] /\ msg[t] = "Invalid credentials"
        /\ \E i \in 1..Len(users) : users[i].username = "bob"

(***************************************************************************)
(* C7                                                                      *)
(***************************************************************************)

\* C7: a delete or an edit whose Product_ID is not in the products collection leaves
\* the collection as it was and is not reported as done: the delete returns False,
\* the edit does not create the row.
C7_MissingTargetIsNoOp ==
    [][\A s \in Sessions : \A n \in Selectable(df[s]) :
        LET pid == FirstWithName(df[s], n).Product_ID
        IN  /\ (get_db_collections /\ CountId(products, pid) = 0 /\ Delete(s, n))
               => /\ products' = products
                  /\ ~delete_returns(pid)
                  /\ msg'[s] # "Deleted from Mongo and local"
            /\ \A f \in EditForms :
                  (get_db_collections /\ CountId(products, pid) = 0 /\ Edit(s, n, f))
                  => /\ products' = products
                     /\ msg'[s] # "Product updated"]_vars

(***************************************************************************)
(* C8                                                                      *)
(***************************************************************************)

\* C8: while get_db_collections returns (None, None), an add, edit or delete leaves
\* the session's local catalog as it was and shows no success message, register_user
\* returns "DB connection problem" and authenticate_user returns None.
C8_UnreachableStoreAborts ==
    [][~get_db_collections =>
        \A s \in Sessions :
            /\ (AddStep(s) \/ EditStep(s) \/ DeleteStep(s))
               => /\ df'[s] = df[s]
                  /\ msg'[s] \notin {"Product added", "Product updated",
                                     "Deleted from Mongo and local"}
            /\ \A u \in Usernames, p \in Passwords :
                  /\ RegisterFind(s, u, p, "Full Name")
                     => /\ msg'[s] = "DB connection problem"
                        /\ users' = users
                        /\ pc'[s] = "idle"
                  /\ Login(s, u, p)
                     => authenticate_user(u, p) = NoUser /\ ~logged_in'[s]]_vars

(***************************************************************************)
(* C9                                                                      *)
(***************************************************************************)

\* C9 as claimed: a session logged in with role "user" never calls update_one,
\* delete_one, delete_many or insert_many on the products collection.
C9_UserRoleNeverWrites ==
    [][\A s \in Sessions :
        (logged_in[s] /\ user[s].role = "user") => ~WriteCall(s)]_vars

\* C9 as amended: the only writes a session logged in with role "user" makes to the
\* products collection are the delete_many and insert_many of the seed push of its
\* first page load.
C9_UserRoleWritesOnlySeed ==
    [][\A s \in Sessions :
        (logged_in[s] /\ user[s].role = "user" /\ WriteCall(s))
        => /\ pc[s] \in {"seed_delete", "seed_insert"}
           /\ df[s] = create_local_df
           /\ products' \in {<<>>, products \o create_local_df}]_vars

\* A session with role "user" has finished its first page load, which seeded the
\* store, while an admin session has meanwhile added a product.
C9_Witness ==
    \E s, t \in Sessions :
        /\ logged_in[s] /\ user[s].role = "user" /\ has_df[s] /\ pc[s] = "idle"
        /\ df[s] = create_local_df
        /\ logged_in[t] /\ user[t].role = "admin" /\ msg[t] = "Product added"
        /\ Len(products) > Len(create_local_df)

(***************************************************************************)
(* C10                                                                     *)
(***************************************************************************)

InRange(r) ==
    /\ r.Price >= 0
    /\ 0 <= r.Rating /\ r.Rating <= 50
    /\ r.Sales_Volume >= 0
    /\ r.Stock >= 0
    /\ r.Discount \in DiscountChoices

\* C10: every row of a local catalog and of the products collection has Price >= 0,
\* 0.0 <= Rating <= 5.0, Sales_Volume >= 0, Stock >= 0 and Discount in {0,5,10,15,20}.
C10_RowsStayInRange == \A r \in AllRows : InRange(r)

====
